---- MODULE Spec2Model ----
(***************************************************************************)
(* Model of src/training/finetune.py: the fine-tuning launch script.       *)
(* One behaviour is one run of the script: the parsed command line, the    *)
(* process environment, the clock and the label files are the inputs, and  *)
(* every statement of __main__ is one step.                                *)
(***************************************************************************)
EXTENDS Integers, Sequences, FiniteSets, TLC

VARIABLES
    pc,              \* position in __main__ ("failed" after an uncaught error)
    conf,            \* OmegaConf.from_cli(sys.argv[1:]): key -> value
    environ,         \* os.environ restricted to WANDB_PROJECT and SLURM_JOB_ID
    clock,           \* str(time.time()) at Config construction
    h5,              \* label cardinalities stored in the split's target files
    config_kwargs,   \* local of get_config_and_training_kwargs
    training_kwargs, \* pass-through mapping, later the assembled bundle
    config,          \* the Config object: field name -> value
    train_dataset,
    valid_dataset,
    loader_calls,    \* calls made to the two checkpoint loaders
    model,
    training_args,   \* the keyword arguments TrainingArguments received
    trainer,
    trained,         \* trainer.train() was called
    error,           \* the uncaught exception, if any
    trace            \* the steps completed so far, in order

vars == <<pc, conf, environ, clock, h5, config_kwargs, training_kwargs, config,
          train_dataset, valid_dataset, loader_calls, model, training_args,
          trainer, trained, error, trace>>

(***************************************************************************)
(* Bounds                                                                  *)
(***************************************************************************)
\* longest target list given on the command line
MaxTargets == 2

(***************************************************************************)
(* Python values: every value carries its type tag.                        *)
(***************************************************************************)
PyNone == [t |-> "none", s |-> "", n |-> 0, l |-> <<>>]
PyStr(x) == [t |-> "str", s |-> x, n |-> 0, l |-> <<>>]
PyInt(x) == [t |-> "int", s |-> "", n |-> x, l |-> <<>>]
PyFloat(x) == [t |-> "float", s |-> x, n |-> 0, l |-> <<>>]
PyBool(b) == [t |-> "bool", s |-> "", n |-> IF b THEN 1 ELSE 0, l |-> <<>>]
PyList(x) == [t |-> "list", s |-> "", n |-> 0, l |-> x]

\* Python truthiness, as used by `if config.x:`
Truthy(v) ==
    CASE v.t = "none" -> FALSE
      [] v.t = "str" -> v.s # ""
      [] v.t = "list" -> v.l # <<>>
      [] v.t = "float" -> v.s # "0.0"
      [] OTHER -> v.n # 0

EmptyMap == [k \in {} |-> PyNone]

\* dict union a | b: the right operand wins on equal keys
DictUnion(a, b) ==
    [k \in (DOMAIN a) \cup (DOMAIN b) |-> IF k \in DOMAIN b THEN b[k] ELSE a[k]]

\* posixpath.join(a, b)
Join(a, b) ==
    IF Len(b) > 0 /\ Head(b) = "/" THEN b
    ELSE IF Len(a) = 0 \/ SubSeq(a, Len(a), Len(a)) = "/" THEN a \o b
    ELSE a \o "/" \o b

\* posixpath.join(a, b, c)
Join3(a, b, c) == Join(Join(a, b), c)

(***************************************************************************)
(* Config (dataclass)                                                      *)
(***************************************************************************)
RequiredFields == {"data_dir", "output_dir_base", "checkpoint_path", "targets"}

\* os.path.expanduser("~/tmp/musicbert_hf_logs")
Home == "/home/user"
ExpandUser(p) == IF Len(p) > 0 /\ Head(p) = "~" THEN Home \o Tail(p) ELSE p

FieldDefaults ==
    [conditioning |-> PyNone,
     log_dir |-> PyStr(ExpandUser("~/tmp/musicbert_hf_logs")),
     num_epochs |-> PyInt(0),
     batch_size |-> PyInt(4),
     learning_rate |-> PyFloat("2.5e-4"),
     warmup_steps |-> PyInt(0),
     max_steps |-> PyInt(-1),
     wandb_project |-> PyNone,
     freeze_layers |-> PyNone]

ConfigFields == RequiredFields \cup DOMAIN FieldDefaults

\* self._job_id
JobId(env, now) ==
    IF "SLURM_JOB_ID" \in DOMAIN env THEN env["SLURM_JOB_ID"] ELSE now

NormalizeTargets(v) == IF v.t = "str" THEN PyList(<<v.s>>) ELSE v

\* variant: a null conditioning is left as it is
NormalizeConditioningStrOnly(v) == IF v.t = "str" THEN PyList(<<v.s>>) ELSE v

NormalizeConditioning(v) ==
    IF v.t = "str" THEN PyList(<<v.s>>)
    ELSE IF v.t = "none" THEN PyList(<<>>)
    ELSE v

\* Config.__post_init__ on the fields the generated __init__ stored
PostInit(fields, env, now) ==
    IF ~(fields["num_epochs"].t # "none" \/ fields["max_steps"].t # "none")
    THEN [error |-> "AssertionError", config |-> EmptyMap]
    ELSE [error |-> "",
          config |-> [k \in (DOMAIN fields) \cup {"_job_id"} |->
                        CASE k = "_job_id" -> PyStr(JobId(env, now))
                          [] k = "targets" -> NormalizeTargets(fields[k])
                          [] k = "conditioning" -> NormalizeConditioning(fields[k])
                          [] OTHER -> fields[k]]]

\* Config(**kwargs): a missing required field is a TypeError
NewConfig(kwargs, env, now) ==
    IF ~(RequiredFields \subseteq DOMAIN kwargs)
    THEN [error |-> "TypeError", config |-> EmptyMap]
    ELSE PostInit(DictUnion(FieldDefaults, kwargs), env, now)

train_dir(c) == Join(c["data_dir"].s, "train")
valid_dir(c) == Join(c["data_dir"].s, "valid")
test_dir(c) == Join(c["data_dir"].s, "test")
output_dir(c) == Join(c["output_dir_base"].s, c["_job_id"].s)

target_paths(c, split) ==
    [i \in 1..Len(c["targets"].l) |->
        Join3(c["data_dir"].s, split, c["targets"].l[i] \o ".h5")]

conditioning_paths(c, split) ==
    [i \in 1..Len(c["conditioning"].l) |->
        Join3(c["data_dir"].s, split, c["conditioning"].l[i] \o ".h5")]

multitask(c) == Len(c["targets"].l) > 1

(***************************************************************************)
(* Dataset locator                                                         *)
(***************************************************************************)
\* HDF5Dataset(events, target_paths): the handle keeps the paths it was given
\* and exposes one label cardinality per target file.
HDF5Dataset(events, targets, conditioning, sizes) ==
    [events |-> events,
     target_paths |-> targets,
     conditioning_paths |-> conditioning,
     vocab_sizes |-> [i \in 1..Len(targets) |-> sizes[i]]]

NoDataset ==
    [events |-> "", target_paths |-> <<>>, conditioning_paths |-> <<>>,
     vocab_sizes |-> <<>>]

\* getattr(config, f"{split}_dir")
SplitDir(c, split) ==
    CASE split = "train" -> train_dir(c)
      [] split = "valid" -> valid_dir(c)
      [] split = "test" -> test_dir(c)

get_dataset(c, split, files) ==
    HDF5Dataset(Join(SplitDir(c, split), "events.h5"),
                target_paths(c, split), <<>>, files[split])

(***************************************************************************)
(* Model selection                                                         *)
(***************************************************************************)
NoModel ==
    [loader |-> "", checkpoint |-> "", scalar |-> FALSE, num_labels |-> <<>>,
     frozen |-> FALSE, freeze_spec |-> PyNone]

\* variant: `if config.checkpoint_path is not None:`
HasCheckpointNotNone(c) == c["checkpoint_path"].t # "none"

\* `if config.checkpoint_path:` (line 124)
HasCheckpoint(c) == Truthy(c["checkpoint_path"])

\* variant: the single-task branch lacks the conditioning check
ConditioningRequestedMultitaskOnly(c) == multitask(c) /\ Truthy(c["conditioning"])

\* `if config.conditioning:` (lines 126 and 139)
ConditioningRequested(c) == Truthy(c["conditioning"])

\* variant: the heads are sized from the valid handle
HeadSizesFromValid(train, valid) == valid.vocab_sizes

\* train_dataset.vocab_sizes (lines 135 and 147)
HeadSizes(train, valid) == train.vocab_sizes

\* the if/else tree of lines 124-150: which loader is called with which
\* num_labels, or which error is raised
SelectModel(c, train, valid) ==
    IF HasCheckpoint(c)
    THEN IF multitask(c)
         THEN IF ConditioningRequested(c)
              THEN [error |-> "NotImplementedError", loader |-> "",
                    scalar |-> FALSE, num_labels |-> <<>>]
              ELSE [error |-> "", loader |-> "multitask",
                    scalar |-> FALSE, num_labels |-> HeadSizes(train, valid)]
         ELSE IF ConditioningRequested(c)
              THEN [error |-> "NotImplementedError", loader |-> "",
                    scalar |-> FALSE, num_labels |-> <<>>]
              ELSE IF Len(HeadSizes(train, valid)) = 0
                   THEN [error |-> "IndexError", loader |-> "",
                         scalar |-> FALSE, num_labels |-> <<>>]
                   ELSE [error |-> "", loader |-> "single",
                         scalar |-> TRUE,
                         num_labels |-> <<HeadSizes(train, valid)[1]>>]
    ELSE [error |-> "ValueError", loader |-> "",
          scalar |-> FALSE, num_labels |-> <<>>]

(***************************************************************************)
(* Command line and training arguments                                     *)
(***************************************************************************)
\* variant: the pass-through mapping is the whole command line
PassThroughUnfiltered(cli) == cli

\* config_kwargs = {k: v for k, v in conf.items() if k in config_fields}
ConfigKwargs(cli) == [k \in (DOMAIN cli) \cap ConfigFields |-> cli[k]]

\* training_kwargs = {k: v for k, v in conf.items() if k not in config_fields}
PassThroughKwargs(cli) == [k \in (DOMAIN cli) \ ConfigFields |-> cli[k]]

\* variant: the defaults also carry learning_rate=config.learning_rate
DefaultKwargsWithLearningRate(c) ==
    [output_dir |-> PyStr(output_dir(c)),
     num_train_epochs |-> c["num_epochs"],
     per_device_train_batch_size |-> c["batch_size"],
     per_device_eval_batch_size |-> c["batch_size"],
     learning_rate |-> c["learning_rate"],
     warmup_steps |-> c["warmup_steps"],
     logging_dir |-> c["log_dir"],
     max_steps |-> c["max_steps"],
     push_to_hub |-> PyBool(FALSE),
     eval_on_start |-> PyBool(TRUE),
     eval_strategy |-> PyStr("steps"),
     metric_for_best_model |-> PyStr("accuracy"),
     greater_is_better |-> PyBool(TRUE),
     save_total_limit |-> PyInt(2),
     load_best_model_at_end |-> PyBool(TRUE)]

\* the dict(...) of defaults of lines 155-170
DefaultKwargs(c) ==
    [output_dir |-> PyStr(output_dir(c)),
     num_train_epochs |-> c["num_epochs"],
     per_device_train_batch_size |-> c["batch_size"],
     per_device_eval_batch_size |-> c["batch_size"],
     warmup_steps |-> c["warmup_steps"],
     logging_dir |-> c["log_dir"],
     max_steps |-> c["max_steps"],
     push_to_hub |-> PyBool(FALSE),
     eval_on_start |-> PyBool(TRUE),
     eval_strategy |-> PyStr("steps"),
     metric_for_best_model |-> PyStr("accuracy"),
     greater_is_better |-> PyBool(TRUE),
     save_total_limit |-> PyInt(2),
     load_best_model_at_end |-> PyBool(TRUE)]

\* variant: training_kwargs | dict(...), the defaults win
MergeKwargsDefaultsWin(defaults, given) == DictUnion(given, defaults)

\* dict(...) | training_kwargs
MergeKwargs(defaults, given) == DictUnion(defaults, given)

\* training_kwargs["report_to"] = "wandb" or None
SetReportTo(kwargs, c) ==
    DictUnion(kwargs,
              [report_to |-> IF Truthy(c["wandb_project"])
                             THEN PyStr("wandb") ELSE PyNone])

\* lines 154-176: the bundle handed to TrainingArguments
AssembleKwargs(c, given) == SetReportTo(MergeKwargs(DefaultKwargs(c), given), c)

\* lines 112-115 on os.environ
SetWandbProject(env, c) ==
    IF Truthy(c["wandb_project"])
    THEN DictUnion(env, [WANDB_PROJECT |-> c["wandb_project"].s])
    ELSE [k \in (DOMAIN env) \ {"WANDB_PROJECT"} |-> env[k]]

(***************************************************************************)
(* Inputs of a run                                                         *)
(***************************************************************************)
Absent == [t |-> "absent", s |-> "", n |-> 0, l |-> <<>>]

\* the mapping holding the keys that were given
Given(choice) == [k \in {x \in DOMAIN choice : choice[x].t # "absent"} |-> choice[k]]

TargetNames == {"onset", "/pitch"}
TargetLists == UNION {[1..n -> TargetNames] : n \in 0..MaxTargets}
TargetInputs ==
    {Absent} \cup {PyStr(x) : x \in TargetNames} \cup {PyList(x) : x \in TargetLists}
DataDirInputs == {PyStr("/d"), PyStr("/d/")}
CheckpointInputs == {Absent, PyStr(""), PyStr("/ckpt")}
ConditioningInputs == {Absent, PyStr("key"), PyList(<<>>), PyList(<<"key">>)}
WandbInputs == {Absent, PyStr(""), PyStr("proj")}
LearningRateInputs == {Absent, PyFloat("0.001"), PyFloat("0.01")}

\* options that are not Config fields
PassThroughInputs ==
    {EmptyMap,
     [output_dir |-> PyStr("/elsewhere")],
     [seed |-> PyInt(42), report_to |-> PyStr("tensorboard")],
     [output_dir |-> PyStr("/elsewhere"), save_total_limit |-> PyInt(5),
      seed |-> PyInt(42)]}

RegularInputs ==
    {DictUnion(
        Given([data_dir |-> d, output_dir_base |-> PyStr("/out"),
               checkpoint_path |-> c, targets |-> t, conditioning |-> q,
               wandb_project |-> w, learning_rate |-> r]),
        p) :
        d \in DataDirInputs, c \in CheckpointInputs, t \in TargetInputs,
        q \in ConditioningInputs, w \in WandbInputs, r \in LearningRateInputs,
        p \in PassThroughInputs}

\* explicit nulls: num_epochs=null max_steps=null, conditioning=null
SpecialInputs ==
    {[data_dir |-> PyStr("/d"), output_dir_base |-> PyStr("/out"),
      checkpoint_path |-> PyStr("/ckpt"), targets |-> PyStr("onset"),
      num_epochs |-> e, max_steps |-> PyNone, conditioning |-> PyNone] :
        e \in {PyNone, PyInt(3)}}

CliInputs == RegularInputs \cup SpecialInputs

Environs ==
    {EmptyMap,
     [WANDB_PROJECT |-> "stale"],
     [WANDB_PROJECT |-> "stale", SLURM_JOB_ID |-> "77"]}

\* label cardinalities of the i-th target file of each split
LabelFiles ==
    {[train |-> [i \in 1..MaxTargets |-> a + i],
      valid |-> [i \in 1..MaxTargets |-> b + i],
      test |-> [i \in 1..MaxTargets |-> b + i]] :
        <<a, b>> \in {<<2, 2>>, <<2, 7>>}}

NoTrainer ==
    [model |-> NoModel, args |-> EmptyMap, multitask_collate |-> FALSE,
     train_dataset |-> NoDataset, eval_dataset |-> NoDataset,
     compute_metrics |-> "", task_names |-> <<>>]

Init ==
    /\ pc = "parse"
    /\ conf \in CliInputs
    /\ environ \in Environs
    /\ clock = "1700000000.5"
    /\ h5 \in LabelFiles
    /\ config_kwargs = EmptyMap
    /\ training_kwargs = EmptyMap
    /\ config = EmptyMap
    /\ train_dataset = NoDataset
    /\ valid_dataset = NoDataset
    /\ loader_calls = <<>>
    /\ model = NoModel
    /\ training_args = EmptyMap
    /\ trainer = NoTrainer
    /\ trained = FALSE
    /\ error = ""
    /\ trace = <<>>

(***************************************************************************)
(* The steps of __main__                                                   *)
(***************************************************************************)
\* get_config_and_training_kwargs, lines 101-104
ParseCli ==
    /\ pc = "parse"
    /\ config_kwargs' = ConfigKwargs(conf)
    /\ training_kwargs' = PassThroughKwargs(conf)
    /\ pc' = "config"
    /\ trace' = Append(trace, "parse")
    /\ UNCHANGED <<conf, environ, clock, h5, config, train_dataset, valid_dataset,
                   loader_calls, model, training_args, trainer, trained, error>>

\* get_config_and_training_kwargs, lines 105-106
ConstructConfig ==
    /\ pc = "config"
    /\ LET r == NewConfig(config_kwargs, environ, clock) IN
         IF r.error # ""
         THEN /\ pc' = "failed"
              /\ error' = r.error
              /\ UNCHANGED <<config, trace>>
         ELSE /\ pc' = "env"
              /\ config' = r.config
              /\ trace' = Append(trace, "config")
              /\ UNCHANGED error
    /\ UNCHANGED <<conf, environ, clock, h5, config_kwargs, training_kwargs,
                   train_dataset, valid_dataset, loader_calls, model,
                   training_args, trainer, trained>>

\* lines 112-115
SetWandbEnv ==
    /\ pc = "env"
    /\ environ' = SetWandbProject(environ, config)
    /\ pc' = "train_dataset"
    /\ trace' = Append(trace, "env")
    /\ UNCHANGED <<conf, clock, h5, config_kwargs, training_kwargs, config,
                   train_dataset, valid_dataset, loader_calls, model,
                   training_args, trainer, trained, error>>

\* line 121
GetTrainDataset ==
    /\ pc = "train_dataset"
    /\ train_dataset' = get_dataset(config, "train", h5)
    /\ pc' = "valid_dataset"
    /\ trace' = Append(trace, "train_dataset")
    /\ UNCHANGED <<conf, environ, clock, h5, config_kwargs, training_kwargs,
                   config, valid_dataset, loader_calls, model, training_args,
                   trainer, trained, error>>

\* line 122
GetValidDataset ==
    /\ pc = "valid_dataset"
    /\ valid_dataset' = get_dataset(config, "valid", h5)
    /\ pc' = "load_model"
    /\ trace' = Append(trace, "valid_dataset")
    /\ UNCHANGED <<conf, environ, clock, h5, config_kwargs, training_kwargs,
                   config, train_dataset, loader_calls, model, training_args,
                   trainer, trained, error>>

\* lines 124-150
LoadModel ==
    /\ pc = "load_model"
    /\ LET r == SelectModel(config, train_dataset, valid_dataset) IN
         IF r.error # ""
         THEN /\ pc' = "failed"
              /\ error' = r.error
              /\ UNCHANGED <<loader_calls, model, trace>>
         ELSE /\ pc' = "freeze"
              /\ loader_calls' =
                    Append(loader_calls,
                           [loader |-> r.loader,
                            checkpoint |-> config["checkpoint_path"].s,
                            scalar |-> r.scalar,
                            num_labels |-> r.num_labels])
              /\ model' = [NoModel EXCEPT !.loader = r.loader,
                                          !.checkpoint = config["checkpoint_path"].s,
                                          !.scalar = r.scalar,
                                          !.num_labels = r.num_labels]
              /\ trace' = Append(trace, "load_model")
              /\ UNCHANGED error
    /\ UNCHANGED <<conf, environ, clock, h5, config_kwargs, training_kwargs,
                   config, train_dataset, valid_dataset, training_args, trainer,
                   trained>>

\* variant: the freeze_layers call is missing
FreezeLayersOmitted ==
    /\ pc = "freeze"
    /\ pc' = "training_kwargs"
    /\ trace' = Append(trace, "freeze")
    /\ UNCHANGED <<conf, environ, clock, h5, config_kwargs, training_kwargs,
                   config, train_dataset, valid_dataset, loader_calls, model,
                   training_args, trainer, trained, error>>

\* line 152
FreezeLayers ==
    /\ pc = "freeze"
    /\ model' = [model EXCEPT !.frozen = TRUE,
                              !.freeze_spec = config["freeze_layers"]]
    /\ pc' = "training_kwargs"
    /\ trace' = Append(trace, "freeze")
    /\ UNCHANGED <<conf, environ, clock, h5, config_kwargs, training_kwargs,
                   config, train_dataset, valid_dataset, loader_calls,
                   training_args, trainer, trained, error>>

\* lines 154-176
BuildTrainingKwargs ==
    /\ pc = "training_kwargs"
    /\ training_kwargs' = AssembleKwargs(config, training_kwargs)
    /\ pc' = "training_args"
    /\ trace' = Append(trace, "training_kwargs")
    /\ UNCHANGED <<conf, environ, clock, h5, config_kwargs, config,
                   train_dataset, valid_dataset, loader_calls, model,
                   training_args, trainer, trained, error>>

\* line 178
MakeTrainingArguments ==
    /\ pc = "training_args"
    /\ training_args' = training_kwargs
    /\ pc' = "trainer"
    /\ trace' = Append(trace, "training_args")
    /\ UNCHANGED <<conf, environ, clock, h5, config_kwargs, training_kwargs,
                   config, train_dataset, valid_dataset, loader_calls, model,
                   trainer, trained, error>>

\* lines 180-195
MakeTrainer ==
    /\ pc = "trainer"
    /\ trainer' =
          [model |-> model,
           args |-> training_args,
           multitask_collate |-> multitask(config),
           train_dataset |-> train_dataset,
           eval_dataset |-> valid_dataset,
           compute_metrics |-> IF multitask(config)
                               THEN "compute_metrics_multitask"
                               ELSE "compute_metrics",
           task_names |-> IF multitask(config) THEN config["targets"].l ELSE <<>>]
    /\ pc' = "train"
    /\ trace' = Append(trace, "trainer")
    /\ UNCHANGED <<conf, environ, clock, h5, config_kwargs, training_kwargs,
                   config, train_dataset, valid_dataset, loader_calls, model,
                   training_args, trained, error>>

\* line 197
Train ==
    /\ pc = "train"
    /\ trained' = TRUE
    /\ pc' = "done"
    /\ trace' = Append(trace, "train")
    /\ UNCHANGED <<conf, environ, clock, h5, config_kwargs, training_kwargs,
                   config, train_dataset, valid_dataset, loader_calls, model,
                   training_args, trainer, error>>

Next ==
    \/ ParseCli
    \/ ConstructConfig
    \/ SetWandbEnv
    \/ GetTrainDataset
    \/ GetValidDataset
    \/ LoadModel
    \/ FreezeLayers
    \/ BuildTrainingKwargs
    \/ MakeTrainingArguments
    \/ MakeTrainer
    \/ Train

Spec == Init /\ [][Next]_vars

(***************************************************************************)
(* Properties                                                              *)
(***************************************************************************)
Has(step) == \E i \in 1..Len(trace) : trace[i] = step

\* the model-selection statement (lines 124-150) has run, whatever its outcome
Dispatched == Has("valid_dataset") /\ pc # "load_model"

WandbConfigured ==
    "wandb_project" \in DOMAIN conf /\ Truthy(conf["wandb_project"])

\* the loader call the decision table asks for
ExpectedCall(call) ==
    IF Len(config["targets"].l) > 1
    THEN /\ call.loader = "multitask"
         /\ ~call.scalar
         /\ call.num_labels = train_dataset.vocab_sizes
         /\ Len(call.num_labels) = Len(config["targets"].l)
         /\ \A i \in 1..Len(call.num_labels) : call.num_labels[i] = h5["train"][i]
    ELSE /\ call.loader = "single"
         /\ call.scalar
         /\ call.num_labels = <<h5["train"][1]>>

\* C1 as stated: with a checkpoint and no conditioning, the dispatch calls
\* exactly one loader: the multitask loader with the train handle's list of
\* cardinalities when there is more than one target, otherwise the single-task
\* loader with the first cardinality.
C1_AnyTargetList ==
    (Dispatched /\ Truthy(config["checkpoint_path"])
                /\ config["conditioning"].l = <<>>)
        => (Len(loader_calls) = 1 /\ ExpectedCall(loader_calls[1]))

\* C1 amended: the same, for a target list that is not empty.
C1_LoaderChoice ==
    (Dispatched /\ Truthy(config["checkpoint_path"])
                /\ config["conditioning"].l = <<>>
                /\ Len(config["targets"].l) >= 1)
        => (Len(loader_calls) = 1 /\ ExpectedCall(loader_calls[1]))

C1_Witness ==
    /\ pc = "done"
    /\ Len(config["targets"].l) = 2
    /\ loader_calls[1].loader = "multitask"
    /\ train_dataset.vocab_sizes # valid_dataset.vocab_sizes

\* C2: with a checkpoint and a non-empty conditioning list the run ends in
\* NotImplementedError at the dispatch: no loader is called, nothing is frozen,
\* no trainer is built and training does not start.
C2_ConditioningRejected ==
    (Has("config") /\ Truthy(config["checkpoint_path"])
                   /\ Len(config["conditioning"].l) > 0)
        => /\ loader_calls = <<>>
           /\ model = NoModel
           /\ training_args = EmptyMap
           /\ trainer = NoTrainer
           /\ ~trained
           /\ pc \in {"env", "train_dataset", "valid_dataset", "load_model", "failed"}
           /\ (pc = "failed" => error = "NotImplementedError")

C2_Witness ==
    /\ pc = "failed"
    /\ error = "NotImplementedError"
    /\ conf["conditioning"].t = "str"
    /\ ~multitask(config)
    /\ Has("valid_dataset")

\* C3: with checkpoint_path empty or absent the run ends in a configuration
\* error whatever targets and conditioning are: no loader is called, no trainer
\* is built and training does not start.
C3_CheckpointRequired ==
    ("checkpoint_path" \notin DOMAIN conf \/ ~Truthy(conf["checkpoint_path"]))
        => /\ loader_calls = <<>>
           /\ model = NoModel
           /\ trainer = NoTrainer
           /\ ~trained
           /\ pc \in {"parse", "config", "env", "train_dataset", "valid_dataset",
                      "load_model", "failed"}
           /\ (pc = "failed" => error \in {"TypeError", "ValueError"})
           /\ (pc = "failed" /\ Has("config") => error = "ValueError")
           /\ (pc = "failed" /\ "checkpoint_path" \notin DOMAIN conf
                  => error = "TypeError")

C3_Witness ==
    /\ pc = "failed"
    /\ error = "ValueError"
    /\ conf["checkpoint_path"] = PyStr("")
    /\ Len(config["conditioning"].l) > 0
    /\ Len(config["targets"].l) = 2

\* the field names declared by the Config dataclass (lines 23-39)
DeclaredFields ==
    {"data_dir", "output_dir_base", "checkpoint_path", "targets", "conditioning",
     "log_dir", "num_epochs", "batch_size", "learning_rate", "warmup_steps",
     "max_steps", "wandb_project", "freeze_layers"}

PassThroughKeys == (DOMAIN conf) \ DeclaredFields

\* C4 as stated: every pass-through key reaches TrainingArguments with the
\* value given on the command line.
C4_EveryKeyKept ==
    Has("training_args")
        => \A k \in PassThroughKeys :
              k \in DOMAIN training_args /\ training_args[k] = conf[k]

\* C4 amended: every pass-through key other than report_to reaches
\* TrainingArguments with the value given on the command line, also when it
\* names one of the defaults.
C4_KeysKeptExceptReportTo ==
    Has("training_args")
        => \A k \in PassThroughKeys \ {"report_to"} :
              k \in DOMAIN training_args /\ training_args[k] = conf[k]

C4_Witness ==
    /\ Has("training_args")
    /\ {"output_dir", "save_total_limit", "seed"} \subseteq PassThroughKeys
    /\ training_args["output_dir"] = PyStr("/elsewhere")
    /\ training_args["save_total_limit"] = PyInt(5)

\* C5 as stated: after setup, without a tracking project WANDB_PROJECT is
\* absent and report_to is "none"; with one, WANDB_PROJECT is the project name
\* and report_to is "wandb".
C5_TrackingSetup ==
    Has("training_args")
        => IF WandbConfigured
           THEN /\ "WANDB_PROJECT" \in DOMAIN environ
                /\ environ["WANDB_PROJECT"] = conf["wandb_project"].s
                /\ training_args["report_to"] = PyStr("wandb")
           ELSE /\ "WANDB_PROJECT" \notin DOMAIN environ
                /\ training_args["report_to"] = PyStr("none")

\* C6: the parsed command line is split into two disjoint mappings that
\* together hold every pair unchanged: the declared Config fields go to Config,
\* everything else to the pass-through mapping.
C6_Partition ==
    (Has("parse") /\ ~Has("training_kwargs"))
        => /\ (DOMAIN config_kwargs) \cap (DOMAIN training_kwargs) = {}
           /\ (DOMAIN config_kwargs) \cup (DOMAIN training_kwargs) = DOMAIN conf
           /\ \A k \in DOMAIN conf :
                 /\ (k \in DOMAIN config_kwargs) <=> (k \in DeclaredFields)
                 /\ (k \in DOMAIN training_kwargs) <=> (k \notin DeclaredFields)
           /\ \A k \in DOMAIN config_kwargs : config_kwargs[k] = conf[k]
           /\ \A k \in DOMAIN training_kwargs : training_kwargs[k] = conf[k]

C6_Witness ==
    /\ pc = "config"
    /\ {"seed", "report_to"} \subseteq DOMAIN training_kwargs
    /\ {"learning_rate", "wandb_project", "targets"} \subseteq DOMAIN config_kwargs

\* the directory <data_dir>/<split>, written without a doubled separator
SplitDirectory(split) ==
    LET d == conf["data_dir"].s IN
        (IF Len(d) > 0 /\ SubSeq(d, Len(d), Len(d)) = "/"
         THEN SubSeq(d, 1, Len(d) - 1) ELSE d) \o "/" \o split

\* a handle over <data_dir>/<split>/events.h5 and one <target>.h5 per target
LocatedIn(handle, split) ==
    /\ handle.events = SplitDirectory(split) \o "/events.h5"
    /\ Len(handle.target_paths) = Len(config["targets"].l)
    /\ \A i \in 1..Len(handle.target_paths) :
          handle.target_paths[i] =
              SplitDirectory(split) \o "/" \o config["targets"].l[i] \o ".h5"
    /\ handle.conditioning_paths = <<>>

\* C7 as stated: for every split the handle is built over
\* <data_dir>/<split>/events.h5 and one <data_dir>/<split>/<target>.h5 per
\* target, in target order, with no conditioning path.
C7_DatasetPaths ==
    /\ Has("config") =>
          \A split \in {"train", "valid", "test"} :
              LocatedIn(get_dataset(config, split, h5), split)
    /\ Has("train_dataset") => LocatedIn(train_dataset, "train")
    /\ Has("valid_dataset") => LocatedIn(valid_dataset, "valid")

\* C7 for target names that do not begin with the path separator: the same
\* statement, which holds.
C7_PlainTargetNames ==
    (Has("config")
        /\ \A i \in 1..Len(config["targets"].l) : Head(config["targets"].l[i]) # "/")
        => C7_DatasetPaths

\* C8: once Config is constructed, targets and conditioning are lists: a
\* string is wrapped into a one-element list, a list is kept as given, an
\* absent or null conditioning is the empty list; and they keep these values
\* in every later state of the run.
C8_NormalizedLists ==
    Has("config")
        => /\ config["targets"].t = "list"
           /\ config["conditioning"].t = "list"
           /\ (conf["targets"].t = "str"
                  => config["targets"].l = <<conf["targets"].s>>)
           /\ (conf["targets"].t = "list"
                  => config["targets"].l = conf["targets"].l)
           /\ config["conditioning"].l =
                 (IF "conditioning" \notin DOMAIN conf THEN <<>>
                  ELSE IF conf["conditioning"].t = "none" THEN <<>>
                  ELSE IF conf["conditioning"].t = "str"
                       THEN <<conf["conditioning"].s>>
                  ELSE conf["conditioning"].l)

C8_Witness ==
    /\ pc = "done"
    /\ conf["targets"] = PyStr("onset")
    /\ config["targets"].l = <<"onset">>
    /\ "conditioning" \in DOMAIN conf
    /\ conf["conditioning"].t = "none"
    /\ config["conditioning"] = PyList(<<>>)

\* the order of the statements of __main__
Order ==
    <<"parse", "config", "env", "train_dataset", "valid_dataset", "load_model",
      "freeze", "training_kwargs", "training_args", "trainer", "train">>

\* C9: the steps happen at most once and in program order; WANDB_PROJECT is
\* written or cleared before TrainingArguments and Trainer are built and keeps
\* that value afterwards; training starts only on a model whose layers were
\* frozen; after a failing step nothing else happens.
C9_LinearPipeline ==
    /\ Len(trace) <= Len(Order)
    /\ \A i \in 1..Len(trace) : trace[i] = Order[i]
    /\ pc # "failed" => pc = (IF Len(trace) = Len(Order) THEN "done"
                              ELSE Order[Len(trace) + 1])
    /\ pc = "failed" => (error # "" /\ ~ENABLED Next)
    /\ (training_args # EmptyMap \/ trainer # NoTrainer \/ trained) => Has("env")
    /\ Has("env") =>
          IF WandbConfigured
          THEN /\ "WANDB_PROJECT" \in DOMAIN environ
               /\ environ["WANDB_PROJECT"] = conf["wandb_project"].s
          ELSE "WANDB_PROJECT" \notin DOMAIN environ
    /\ model # NoModel => Has("load_model")
    /\ trainer # NoTrainer => (Has("training_args") /\ trainer.model.frozen)
    /\ trained => (model.frozen /\ trainer.model = model /\ Has("trainer"))
    /\ ~Has("config") => train_dataset = NoDataset
    /\ ~Has("train_dataset") => valid_dataset = NoDataset
    /\ ~Has("valid_dataset") => loader_calls = <<>>

C9_Witness ==
    /\ pc = "done"
    /\ trace = Order
    /\ trained
    /\ "WANDB_PROJECT" \in DOMAIN environ
    /\ environ["WANDB_PROJECT"] = "proj"

\* the bundle a run on command line `cli` hands to TrainingArguments
BundleOf(cli) ==
    AssembleKwargs(NewConfig(ConfigKwargs(cli), environ, clock).config,
                   PassThroughKwargs(cli))

\* C10: the bundle handed to TrainingArguments has no learning_rate key and is
\* the bundle of every run that differs only in the learning_rate given.
C10_LearningRateDropped ==
    Has("training_args")
        => /\ "learning_rate" \notin DOMAIN training_args
           /\ \A r \in LearningRateInputs \ {Absent} :
                 BundleOf(DictUnion(conf, [learning_rate |-> r])) = training_args
           /\ BundleOf([k \in (DOMAIN conf) \ {"learning_rate"} |-> conf[k]])
                 = training_args

C10_Witness ==
    /\ Has("training_args")
    /\ "learning_rate" \in DOMAIN conf
    /\ config["learning_rate"] = PyFloat("0.01")
    /\ training_args["max_steps"] = PyInt(-1)

====
